---------------------------- MODULE Spec2Model ----------------------------
(***************************************************************************)
(* The model-score notebook of labrador-sea-oxygen (cmip6_score.ipynb) as  *)
(* a state machine: the per-model loading loop followed by the scoring     *)
(* cells, run one after the other.                                         *)
(*                                                                         *)
(* Numbers.  The notebook computes in IEEE doubles.  Here a number is a    *)
(* pair <<n, d>>: the exact rational n/d in lowest terms when d > 0, and   *)
(* <<0,0>> = NaN, <<1,0>> = +inf, <<-1,0>> = -inf when d = 0.  Rounding    *)
(* error of the doubles is not modelled; NaN and inf propagate as they do  *)
(* in numpy/pandas.                                                        *)
(*                                                                         *)
(* Dates.  A timestamp is the number Date(y, m, d), increasing with the    *)
(* calendar date.                                                          *)
(***************************************************************************)
EXTENDS Integers, Sequences, FiniteSets, TLC

(***************************************************************************)
(* Exact arithmetic with NaN and inf                                       *)
(***************************************************************************)
Abs(i) == IF i < 0 THEN -i ELSE i

Sgn(i) == IF i < 0 THEN -1 ELSE IF i > 0 THEN 1 ELSE 0

RECURSIVE GCD(_, _)
GCD(a, b) == IF b = 0 THEN a ELSE GCD(b, a % b)

\* n/d brought to lowest terms; d = 0 gives NaN or an infinity by the sign of n
Norm(n, d) ==
  IF d = 0 THEN <<Sgn(n), 0>>
  ELSE LET g == GCD(Abs(n), Abs(d))
           s == IF d < 0 THEN -1 ELSE 1
       IN  <<s * (n \div g), s * (d \div g)>>

Num(i) == <<i, 1>>

NaN == <<0, 0>>

IsNaN(x) == x = NaN

IsFinite(x) == x[2] > 0

FNeg(x) == <<-x[1], x[2]>>

FAbs(x) == <<Abs(x[1]), x[2]>>

FAdd(x, y) ==
  IF x[2] = 0 /\ y[2] = 0
  THEN (IF x = y THEN x ELSE NaN)
  ELSE IF x[2] = 0 THEN x
  ELSE IF y[2] = 0 THEN y
  ELSE LET g == GCD(x[2], y[2])
       IN  Norm(x[1] * (y[2] \div g) + y[1] * (x[2] \div g), x[2] * (y[2] \div g))

FSub(x, y) == FAdd(x, FNeg(y))

\* cross-reduced before multiplying, so that the products stay small
FMul(x, y) ==
  IF x[2] = 0 \/ y[2] = 0
  THEN <<Sgn(x[1]) * Sgn(y[1]), 0>>
  ELSE LET g1 == GCD(Abs(x[1]), y[2])
           g2 == GCD(Abs(y[1]), x[2])
       IN  Norm((x[1] \div g1) * (y[1] \div g2), (x[2] \div g2) * (y[2] \div g1))

\* 1/x; 1/0 = +inf, 1/inf = 0, 1/NaN = NaN
FInv(x) ==
  IF x[2] = 0 THEN (IF x[1] = 0 THEN NaN ELSE Num(0))
  ELSE IF x[1] = 0 THEN <<1, 0>>
  ELSE IF x[1] < 0 THEN <<-x[2], -x[1]>>
  ELSE <<x[2], x[1]>>

\* x/y as IEEE: finite/0 is an infinity of the sign of x, 0/0 and inf/inf are NaN
FDiv(x, y) ==
  IF x[2] = 0 /\ y[2] = 0 THEN NaN
  ELSE IF y[2] > 0 /\ y[1] = 0 THEN <<Sgn(x[1]), 0>>
  ELSE FMul(x, FInv(y))

\* comparisons; every comparison with NaN is false
FLt(x, y) ==
  IF IsNaN(x) \/ IsNaN(y) THEN FALSE
  ELSE IF x[2] = 0 /\ y[2] = 0 THEN x[1] < y[1]
  ELSE IF x[2] = 0 THEN x[1] < 0
  ELSE IF y[2] = 0 THEN y[1] > 0
  ELSE x[1] * y[2] < y[1] * x[2]

FGt(x, y) == FLt(y, x)

FLe(x, y) == ~IsNaN(x) /\ ~IsNaN(y) /\ ~FLt(y, x)

FGe(x, y) == FLe(y, x)

\* numpy's round: to the nearest integer, a tie to the even one; NaN and inf stay
FRound(x) ==
  IF x[2] = 0 THEN x
  ELSE LET fl == x[1] \div x[2]
           r2 == 2 * (x[1] % x[2])
       IN  IF r2 < x[2] THEN Num(fl)
           ELSE IF r2 > x[2] THEN Num(fl + 1)
           ELSE IF fl % 2 = 0 THEN Num(fl) ELSE Num(fl + 1)

RECURSIVE FSumSeq(_)
FSumSeq(s) == IF s = <<>> THEN Num(0) ELSE FAdd(Head(s), FSumSeq(Tail(s)))


(***************************************************************************)
(* Dates, sequences, tables                                                *)
(***************************************************************************)
Date(y, m, d) == (y * 12 + (m - 1)) * 31 + (d - 1)

YearOf(t) == t \div 372

\* the label of resample("YS"): January 1
YearStart(y) == Date(y, 1, 1)

\* the label pandas gives the annual bin of year y: December 31
YearEnd(y) == Date(y, 12, 31)

Range(s) == {s[i] : i \in DOMAIN s}

Min(S) == CHOOSE x \in S : \A y \in S : x <= y

Max(S) == CHOOSE x \in S : \A y \in S : y <= x

\* the values f takes on the set S of integers, in the order of S
RECURSIVE Vals(_, _)
Vals(f, S) ==
  IF S = {} THEN <<>>
  ELSE LET m == Min(S) IN <<f[m]>> \o Vals(f, S \ {m})

\* the labels of an index in increasing order
Labels(index) == Vals([ts \in index |-> ts], index)

\* sum and mean over a sequence of numbers, NaN propagating (numpy sum / mean)
FSum(s) == FSumSeq(s)

FMean(s) == FDiv(FSum(s), Num(Len(s)))

\* pandas / xarray reductions skip NaN; nothing left gives NaN
Defined(s) == SelectSeq(s, LAMBDA x : ~IsNaN(x))

MeanSkipNa(s) == LET d == Defined(s) IN IF d = <<>> THEN NaN ELSE FMean(d)

\* np.nansum: NaN counts as zero
NanSum(s) == FSum(Defined(s))

RECURSIVE FMaxSeq(_)
FMaxSeq(s) ==
  IF Len(s) = 1 THEN s[1]
  ELSE LET r == FMaxSeq(Tail(s)) IN IF FGt(s[1], r) THEN s[1] ELSE r

RECURSIVE FMinSeq(_)
FMinSeq(s) ==
  IF Len(s) = 1 THEN s[1]
  ELSE LET r == FMinSeq(Tail(s)) IN IF FLt(s[1], r) THEN s[1] ELSE r

\* pandas max / min of a column: NaN skipped, NaN for an empty selection
ColMax(s) == LET d == Defined(s) IN IF d = <<>> THEN NaN ELSE FMaxSeq(d)

ColMin(s) == LET d == Defined(s) IN IF d = <<>> THEN NaN ELSE FMinSeq(d)

(***************************************************************************)
(* The inputs.  files[m] is what the data provider holds for model m:      *)
(*   avail     whether open_mfdataset finds and opens the files            *)
(*   lat, lon  the coordinate axes, in thousandths of a degree             *)
(*   time      the time axis of the o2 field (dates), ftime that of fgo2   *)
(*   lev       the depth levels, lev_bnds[k] = <<upper, lower>> bound      *)
(*   o2[c][t][k]   concentration (mol/m3) at grid cell c = <<i, j>>        *)
(*   fgo2[c][t]    gas flux (mol/m2/s) at grid cell c                      *)
(* csv holds the observational tables read from data/*.csv: csv.lsw and    *)
(* csv.bot (annual inventories of the two layers, indexed by date) and     *)
(* csv.prof (mean profile, indexed by depth).  A table is a record         *)
(*   [index |-> the set of row labels, cols |-> the column names,          *)
(*    val |-> [column -> [row label -> number]]].                          *)
(***************************************************************************)
VARIABLES files, csv, df_o2inv_lsw, df_o2inv_bot, df_o2_prof, df_gex,
          nn, pc, failed,
          lsw_corr, scr_corr, lsw_max, scr_max, bot_std, scr_std,
          scr_prof_1, scr_prof_2, scr_prof, scr_gex, scr

vars == <<files, csv, df_o2inv_lsw, df_o2inv_bot, df_o2_prof, df_gex, nn, pc, failed,
          lsw_corr, scr_corr, lsw_max, scr_max, bot_std, scr_std,
          scr_prof_1, scr_prof_2, scr_prof, scr_gex, scr>>

\* the models of the run, in loop order
infl == <<"miroc_e2sl", "noaa_gfdl">>

\* central latitude of the target point, 56.823 degrees north
lat0 == 56823

\* the target longitude -52.22 in the (-180, 180) convention
lonWest == -52220

\* the field counts as gridded in (0, 360) when its largest longitude is 200 or more
lonSwitch == 200000

\* depth separating the LSW layer from the lower layer
lev2200 == 2200

(***************************************************************************)
(* Cell 76648be2: the body of the loop over the models                     *)
(***************************************************************************)
\* the target longitude without the switch of convention
lon0West(lon) == lonWest

\* the target longitude in the convention of the field's longitude axis
lon0(lon) == IF Max(Range(lon)) < lonSwitch THEN lonWest ELSE lonWest + 360000

\* a selection that takes the first coordinate of the axis
SelFirst(axis, target) == Min(DOMAIN axis)

\* .sel(method='nearest') on one axis: the index of the closest coordinate;
\* never fails; of two equally close coordinates the larger one is taken
SelNearest(axis, target) ==
  CHOOSE i \in DOMAIN axis :
    \A j \in DOMAIN axis :
      \/ Abs(axis[i] - target) < Abs(axis[j] - target)
      \/ Abs(axis[i] - target) = Abs(axis[j] - target) /\ axis[j] <= axis[i]

\* the grid cell of the central Labrador Sea in dataset ds
cls(ds) == <<SelNearest(ds.lat, lat0), SelNearest(ds.lon, lon0(ds.lon))>>

ds_o2_cls(ds) == ds.o2[cls(ds)]

ds_fgo2_cls(ds) == ds.fgo2[cls(ds)]

\* thickness of each level
dz(ds) == [k \in DOMAIN ds.lev |-> ds.lev_bnds[k][2] - ds.lev_bnds[k][1]]

o2_inv0(ds) ==
  LET o2 == ds_o2_cls(ds)
  IN  [t \in DOMAIN ds.time |->
         [k \in DOMAIN ds.lev |-> FMul(o2[t][k], Num(dz(ds)[k]))]]

\* an LSW layer that ends above 2200 m
o2_invAbove(ds) ==
  LET inv0 == o2_inv0(ds)
  IN  [t \in DOMAIN ds.time |->
         FSum(Vals(inv0[t], {k \in DOMAIN ds.lev : ds.lev[k] < lev2200}))]

\* LSW-layer inventory per time step: a plain sum, NaN if any level is NaN
o2_inv(ds) ==
  LET inv0 == o2_inv0(ds)
  IN  [t \in DOMAIN ds.time |->
         FSum(Vals(inv0[t], {k \in DOMAIN ds.lev : ds.lev[k] <= lev2200}))]

\* a lower-layer inventory summed like the upper one
o2_inv_botPlain(ds) ==
  LET inv0 == o2_inv0(ds)
  IN  [t \in DOMAIN ds.time |->
         FSum(Vals(inv0[t], {k \in DOMAIN ds.lev : ds.lev[k] > lev2200}))]

\* lower-layer inventory per time step: np.nansum
o2_inv_bot(ds) ==
  LET inv0 == o2_inv0(ds)
  IN  [t \in DOMAIN ds.time |->
         NanSum(Vals(inv0[t], {k \in DOMAIN ds.lev : ds.lev[k] > lev2200}))]

\* the reference window slice("1950-01", "2009-12"), both months included
InRefWindow(t) == Date(1950, 1, 1) <= t /\ t <= Date(2009, 12, 31)

\* time-mean concentration at each level over the reference window (skipping NaN)
o2_prof(ds) ==
  LET o2 == ds_o2_cls(ds)
  IN  [k \in DOMAIN ds.lev |->
         MeanSkipNa(Vals([t \in DOMAIN ds.time |-> o2[t][k]],
                         {t \in DOMAIN ds.time : InRefWindow(ds.time[t])}))]

\* np.interp(x, xp, fp): linear between the neighbours, the end values outside
Interp(x, xp, fp) ==
  IF x <= xp[1] THEN fp[1]
  ELSE IF x >= xp[Len(xp)] THEN fp[Len(xp)]
  ELSE LET j == Max({i \in DOMAIN xp : xp[i] <= x})
       IN  IF xp[j] = x THEN fp[j]
           ELSE FAdd(fp[j],
                     FMul(FDiv(FSub(fp[j + 1], fp[j]), Num(xp[j + 1] - xp[j])),
                          Num(x - xp[j])))

\* the model column of df_o2_prof: mol/m3 -> umol/L, then onto the observed depths
ProfColumn(ds, depths) ==
  LET prof == o2_prof(ds)
  IN  [d \in depths |->
         Interp(d, ds.lev, [k \in DOMAIN ds.lev |-> FMul(prof[k], Num(1000))])]

\* the model entry of df_gex: mean flux over the reference window, per year
GexValue(ds) ==
  FMul(FMul(FMean(Vals(ds_fgo2_cls(ds),
                       {t \in DOMAIN ds.ftime : InRefWindow(ds.ftime[t])})),
            Num(365)), Num(86400))

\* .resample("Y").mean(): one bin per calendar year from the first to the last
\* sample, the mean of the year's samples (NaN for a year without any)
ResampleY(time, v) ==
  [y \in YearOf(time[1])..YearOf(time[Len(time)]) |->
     MeanSkipNa(Vals(v, {t \in DOMAIN time : YearOf(time[t]) = y}))]

\* .reindex(index, method='ffill'): the value at the last old label at or before
ReindexFfill(res, index) ==
  [ts \in index |->
     LET earlier == {y \in DOMAIN res : YearEnd(y) <= ts}
     IN  IF earlier = {} THEN NaN ELSE res[CHOOSE y \in earlier : y + 1 \notin earlier]]

\* .reindex(index, method='bfill'): at each new label the value at the next
\* old label at or after it (the old labels being the year ends), NaN if none
ReindexBfill(res, index) ==
  [ts \in index |->
     LET later == {y \in DOMAIN res : YearEnd(y) >= ts}
     IN  IF later = {} THEN NaN ELSE res[CHOOSE y \in later : y - 1 \notin later]]

\* the annual, aligned column of one model
Aligned(time, v, index) == ReindexBfill(ResampleY(time, v), index)

\* a merge that lets the new column replace the model columns merged before it
MergeOver(df, name, col) ==
  [df EXCEPT !.cols = Append(df.cols, name),
             !.val = [c \in DOMAIN df.val \cup {name} |->
                        IF c = "Obs" THEN df.val[c] ELSE col]]

\* df.merge(df_mod, left_index=True, right_index=True): df_mod carries df's index
Merge(df, name, col) ==
  [df EXCEPT !.cols = Append(df.cols, name),
             !.val = [c \in DOMAIN df.val \cup {name} |->
                        IF c = name THEN col ELSE df.val[c]]]

(***************************************************************************)
(* Cell 345cf010: common time support, anomalies                           *)
(***************************************************************************)
Column(df, c) == Vals(df.val[c], df.index)

\* df.dropna(subset=['Obs']): the rows in which the observation is not NaN
DropNaObs(df) ==
  LET keep == {ts \in df.index : ~IsNaN(df.val["Obs"][ts])}
  IN  [df EXCEPT !.index = keep,
                 !.val = [c \in DOMAIN df.val |-> [ts \in keep |-> df.val[c][ts]]]]

\* df.dropna(): the rows in which no column is NaN
DropNa(df) ==
  LET keep == {ts \in df.index : \A c \in Range(df.cols) : ~IsNaN(df.val[c][ts])}
  IN  [df EXCEPT !.index = keep,
                 !.val = [c \in DOMAIN df.val |-> [ts \in keep |-> df.val[c][ts]]]]

\* df - df.mean(): every column less its own time mean
Anomaly(df) ==
  [df EXCEPT !.val = [c \in DOMAIN df.val |->
     LET mean == MeanSkipNa(Column(df, c))
     IN  [ts \in df.index |-> FSub(df.val[c][ts], mean)]]]

(***************************************************************************)
(* Cell 99613f21: correlation score                                        *)
(***************************************************************************)
\* sum over the rows of the products of the two columns' deviations from their means
SumDev(df, a, b) ==
  LET ma == MeanSkipNa(Column(df, a))
      mb == MeanSkipNa(Column(df, b))
  IN  FSum(Vals([ts \in df.index |->
                   FMul(FSub(df.val[a][ts], ma), FSub(df.val[b][ts], mb))],
                df.index))

\* Pearson correlation of column c with column "Obs", held as its sign and its
\* square (the correlation itself is a square root); NaN when a column is
\* constant or fewer than two rows are left
Pearson(df, c) ==
  LET num == SumDev(df, c, "Obs")
      sq  == FDiv(FMul(num, num), FMul(SumDev(df, c, c), SumDev(df, "Obs", "Obs")))
  IN  [sgn |-> IF IsNaN(sq) THEN 0 ELSE Sgn(num[1]), sq |-> sq]

CorrWith(df) == [c \in DOMAIN df.val |-> Pearson(df, c)]

\* set to 0 the scores below 0
ClampLow(x) == IF FLt(x, Num(0)) THEN Num(0) ELSE x

\* set to 20 the scores above 20
ClampHigh(x) == IF FGt(x, Num(20)) THEN Num(20) ELSE x

\* a correlation score that keeps the sign of the correlation
ScrCorrSigned(corr) ==
  ClampLow(FRound(FMul(Num(corr.sgn), FDiv(FMul(Num(20), corr.sq), <<81, 100>>))))

\* (20*lsw_corr**2/0.81).round(), then set to 0 if below 0
ScrCorr(corr) == ClampLow(FRound(FDiv(FMul(Num(20), corr.sq), <<81, 100>>)))

(***************************************************************************)
(* Cell ccd2fdbb: maximum anomaly in the LSW layer                         *)
(***************************************************************************)
\* the rows df[first:last] of a label slice, both ends included
Slice(df, first, last) == {ts \in df.index : first <= ts /\ ts <= last}

LswMax(df) ==
  [c \in DOMAIN df.val |->
     FSub(ColMax(Vals(df.val[c], Slice(df, Date(1990, 1, 1), Date(1995, 1, 1)))),
          ColMin(Vals(df.val[c], Slice(df, Date(2002, 1, 1), Date(2007, 1, 1)))))]

\* an extremum score that gives 0 where the ratio is undefined
ScrMaxFilled(lm, c) ==
  LET r == FRound(IF FGt(lm[c], lm["Obs"])
                  THEN FMul(Num(20), FDiv(lm["Obs"], lm[c]))
                  ELSE FMul(Num(20), FDiv(lm[c], lm["Obs"])))
  IN  IF IsNaN(r) THEN Num(0) ELSE ClampLow(r)

\* 20 * model/obs, the inverse ratio where model > obs, rounded, 0 if below 0
ScrMax(lm, c) ==
  ClampLow(FRound(IF FGt(lm[c], lm["Obs"])
                  THEN FMul(Num(20), FDiv(lm["Obs"], lm[c]))
                  ELSE FMul(Num(20), FDiv(lm[c], lm["Obs"]))))

(***************************************************************************)
(* Cell 2726b3f1: standard deviation of the lower layer                    *)
(***************************************************************************)
\* df.std() of column c, held as its square (the sample variance, ddof = 1)
Variance(df, c) ==
  IF Cardinality(df.index) <= 1 THEN NaN
  ELSE FDiv(SumDev(df, c, c), Num(Cardinality(df.index) - 1))

BotStd(df) == [c \in DOMAIN df.val |-> Variance(df, c)]

\* the largest k >= from with k*k*d <= 400*n, i.e. floor(20 * sqrt(n/d))
RECURSIVE Floor20Sqrt(_, _, _)
Floor20Sqrt(n, d, from) ==
  IF (from + 1) * (from + 1) * d <= 400 * n THEN Floor20Sqrt(n, d, from + 1) ELSE from

\* (20 * sqrt(q)).round() for a number q >= 0: the rounded 20-fold ratio of two
\* standard deviations whose squares have the ratio q
Round20Sqrt(q) ==
  IF q[2] = 0 THEN q
  ELSE LET k   == Floor20Sqrt(q[1], q[2], 0)
           lhs == (2 * k + 1) * (2 * k + 1) * q[2]
           rhs == 1600 * q[1]
       IN  IF rhs < lhs THEN Num(k)
           ELSE IF rhs > lhs THEN Num(k + 1)
           ELSE IF k % 2 = 0 THEN Num(k) ELSE Num(k + 1)

\* 20 * model/obs throughout, without the inverse ratio
ScrStdDirect(bs, c) == Round20Sqrt(FDiv(bs[c], bs["Obs"]))

\* 20 * model/obs, the inverse ratio where model > obs, rounded; no clamp
ScrStd(bs, c) ==
  IF FGt(bs[c], bs["Obs"])
  THEN Round20Sqrt(FDiv(bs["Obs"], bs[c]))
  ELSE Round20Sqrt(FDiv(bs[c], bs["Obs"]))

(***************************************************************************)
(* Cell 1c8866c8: mean oxygen profile score                                *)
(***************************************************************************)
\* df_o2_prof.sub(df_o2_prof['Obs'], axis=0)
o2_diff(df) ==
  [c \in DOMAIN df.val |-> [d \in df.index |-> FSub(df.val[c][d], df.val["Obs"][d])]]

\* the layer score taken from the signed mean bias
ScrProfLayerSigned(df, c, layer) ==
  ClampLow(FSub(Num(10), FDiv(MeanSkipNa(Vals(o2_diff(df)[c], layer)), Num(2))))

\* 10 - abs(mean bias over the depths of the layer)/2, 0 if below 0
ScrProfLayer(df, c, layer) ==
  ClampLow(FSub(Num(10),
                FDiv(FAbs(MeanSkipNa(Vals(o2_diff(df)[c], layer))), Num(2))))

ScrProf1(df, c) == ScrProfLayer(df, c, {d \in df.index : d < lev2200})

ScrProf2(df, c) == ScrProfLayer(df, c, {d \in df.index : d >= lev2200})

\* a profile score taken from the mean bias over the whole water column
ScrProfWhole(df, c) ==
  FRound(ClampLow(FSub(Num(20), FAbs(MeanSkipNa(Vals(o2_diff(df)[c], df.index))))))

\* (scr_prof_1 + scr_prof_2).round()
ScrProf(df, c) == FRound(FAdd(ScrProf1(df, c), ScrProf2(df, c)))

(***************************************************************************)
(* Cell 25997f87: gas exchange score                                       *)
(***************************************************************************)
\* literature standard deviation of the gas exchange, 5.2
std_gex == <<26, 5>>

\* the gas exchange score without the line that sets scores above 20 to 20
ScrGexUncapped(gex, c) ==
  ClampLow(FRound(
    FSub(Num(20),
         FMul(FDiv(FSub(FAbs(FSub(gex["Obs"], gex[c])), FDiv(std_gex, Num(2))),
                   FMul(Num(4), std_gex)),
              Num(20)))))

\* (20-(abs(obs-model)-std_gex/2)/(4*std_gex)*20).round(), kept within 0..20
ScrGex(gex, c) ==
  ClampHigh(ClampLow(FRound(
    FSub(Num(20),
         FMul(FDiv(FSub(FAbs(FSub(gex["Obs"], gex[c])), FDiv(std_gex, Num(2))),
                   FMul(Num(4), std_gex)),
              Num(20))))))

(***************************************************************************)
(* The notebook                                                            *)
(***************************************************************************)
\* not computed yet
None == <<>>

\* df_gex = pd.DataFrame({'Obs': [22.66]})
GexObs == <<1133, 50>>

\* one pass of the loop body for model m on each of the four accumulated tables
LoadLsw(df, m, ds) == Merge(df, m, Aligned(ds.time, o2_inv(ds), df.index))

LoadBot(df, m, ds) == Merge(df, m, Aligned(ds.time, o2_inv_bot(ds), df.index))

LoadProf(df, m, ds) == Merge(df, m, ProfColumn(ds, df.index))

LoadGex(gex, m, ds) ==
  [c \in DOMAIN gex \cup {m} |-> IF c = m THEN GexValue(ds) ELSE gex[c]]

\* the loop body for the next model: open, sample, integrate, align, merge
LoadModel ==
  /\ pc = "load"
  /\ files[infl[nn + 1]].avail
  /\ LET m  == infl[nn + 1]
         ds == files[m]
     IN  /\ df_o2_prof' = LoadProf(df_o2_prof, m, ds)
         /\ df_gex' = LoadGex(df_gex, m, ds)
         /\ df_o2inv_lsw' = LoadLsw(df_o2inv_lsw, m, ds)
         /\ df_o2inv_bot' = LoadBot(df_o2inv_bot, m, ds)
  /\ nn' = nn + 1
  /\ pc' = IF nn + 1 = Len(infl) THEN "dropna" ELSE "load"
  /\ UNCHANGED <<files, csv, failed, lsw_corr, scr_corr, lsw_max, scr_max, bot_std,
                 scr_std, scr_prof_1, scr_prof_2, scr_prof, scr_gex, scr>>

\* a loop that catches the exception, notes the model and goes on to the next
LoadSkip ==
  /\ pc = "load"
  /\ ~files[infl[nn + 1]].avail
  /\ pc' = IF nn + 1 = Len(infl) THEN "dropna" ELSE "load"
  /\ nn' = nn + 1
  /\ failed' = infl[nn + 1]
  /\ UNCHANGED <<files, csv, df_o2inv_lsw, df_o2inv_bot, df_o2_prof, df_gex,
                 lsw_corr, scr_corr, lsw_max, scr_max, bot_std, scr_std,
                 scr_prof_1, scr_prof_2, scr_prof, scr_gex, scr>>

\* open_mfdataset raises for the next model: nothing catches it, the cell and
\* with it the run end there
LoadFail ==
  /\ pc = "load"
  /\ ~files[infl[nn + 1]].avail
  /\ pc' = "failed"
  /\ failed' = infl[nn + 1]
  /\ UNCHANGED <<files, csv, df_o2inv_lsw, df_o2inv_bot, df_o2_prof, df_gex, nn,
                 lsw_corr, scr_corr, lsw_max, scr_max, bot_std, scr_std,
                 scr_prof_1, scr_prof_2, scr_prof, scr_gex, scr>>

\* cell 345cf010
DropnaAnomaly ==
  /\ pc = "dropna"
  /\ df_o2inv_lsw' = Anomaly(DropNa(df_o2inv_lsw))
  /\ df_o2inv_bot' = Anomaly(DropNa(df_o2inv_bot))
  /\ pc' = "corr"
  /\ UNCHANGED <<files, csv, df_o2_prof, df_gex, nn, failed,
                 lsw_corr, scr_corr, lsw_max, scr_max, bot_std, scr_std,
                 scr_prof_1, scr_prof_2, scr_prof, scr_gex, scr>>

\* cell 99613f21
CorrScore ==
  /\ pc = "corr"
  /\ lsw_corr' = CorrWith(df_o2inv_lsw)
  /\ scr_corr' = [c \in DOMAIN df_o2inv_lsw.val |-> ScrCorr(CorrWith(df_o2inv_lsw)[c])]
  /\ pc' = "max"
  /\ UNCHANGED <<files, csv, df_o2inv_lsw, df_o2inv_bot, df_o2_prof, df_gex, nn, failed,
                 lsw_max, scr_max, bot_std, scr_std,
                 scr_prof_1, scr_prof_2, scr_prof, scr_gex, scr>>

\* cell ccd2fdbb
MaxScore ==
  /\ pc = "max"
  /\ lsw_max' = LswMax(df_o2inv_lsw)
  /\ scr_max' = [c \in DOMAIN df_o2inv_lsw.val |-> ScrMax(LswMax(df_o2inv_lsw), c)]
  /\ pc' = "std"
  /\ UNCHANGED <<files, csv, df_o2inv_lsw, df_o2inv_bot, df_o2_prof, df_gex, nn, failed,
                 lsw_corr, scr_corr, bot_std, scr_std,
                 scr_prof_1, scr_prof_2, scr_prof, scr_gex, scr>>

\* cell 2726b3f1
StdScore ==
  /\ pc = "std"
  /\ bot_std' = BotStd(df_o2inv_bot)
  /\ scr_std' = [c \in DOMAIN df_o2inv_bot.val |-> ScrStd(BotStd(df_o2inv_bot), c)]
  /\ pc' = "prof"
  /\ UNCHANGED <<files, csv, df_o2inv_lsw, df_o2inv_bot, df_o2_prof, df_gex, nn, failed,
                 lsw_corr, scr_corr, lsw_max, scr_max,
                 scr_prof_1, scr_prof_2, scr_prof, scr_gex, scr>>

\* cell 1c8866c8
ProfScore ==
  /\ pc = "prof"
  /\ scr_prof_1' = [c \in DOMAIN df_o2_prof.val |-> ScrProf1(df_o2_prof, c)]
  /\ scr_prof_2' = [c \in DOMAIN df_o2_prof.val |-> ScrProf2(df_o2_prof, c)]
  /\ scr_prof' = [c \in DOMAIN df_o2_prof.val |-> ScrProf(df_o2_prof, c)]
  /\ pc' = "gex"
  /\ UNCHANGED <<files, csv, df_o2inv_lsw, df_o2inv_bot, df_o2_prof, df_gex, nn, failed,
                 lsw_corr, scr_corr, lsw_max, scr_max, bot_std, scr_std, scr_gex, scr>>

\* cell 25997f87
GexScore ==
  /\ pc = "gex"
  /\ scr_gex' = [c \in DOMAIN df_gex |-> ScrGex(df_gex, c)]
  /\ pc' = "total"
  /\ UNCHANGED <<files, csv, df_o2inv_lsw, df_o2inv_bot, df_o2_prof, df_gex, nn, failed,
                 lsw_corr, scr_corr, lsw_max, scr_max, bot_std, scr_std,
                 scr_prof_1, scr_prof_2, scr_prof, scr>>

\* scr_corr + scr_max + scr_std + scr_prof + scr_gex
\* a total that leaves the profile score out
TotalNoProf(c) ==
  FAdd(FAdd(FAdd(scr_corr[c], scr_max[c]), scr_std[c]), scr_gex[c])

Total(c) ==
  FAdd(FAdd(FAdd(FAdd(scr_corr[c], scr_max[c]), scr_std[c]), scr_prof[c]), scr_gex[c])

\* cell c8ddf902
TotalScore ==
  /\ pc = "total"
  /\ scr' = [c \in DOMAIN scr_gex |-> Total(c)]
  /\ pc' = "done"
  /\ UNCHANGED <<files, csv, df_o2inv_lsw, df_o2inv_bot, df_o2_prof, df_gex, nn, failed,
                 lsw_corr, scr_corr, lsw_max, scr_max, bot_std, scr_std,
                 scr_prof_1, scr_prof_2, scr_prof, scr_gex>>

(***************************************************************************)
(* The inputs of the runs that are checked                                 *)
(***************************************************************************)
\* concentrations (mol/m3) range over 0..MaxVal
MaxVal == 2

\* the mean flux of a model ranges over 0..MaxFlux tenths of mol/m2/yr
MaxFlux == 480

\* the years of the observational tables, each labelled July 1
ObsYears == <<1990, 1994, 1995, 2002, 2007>>

ObsIndex == {Date(ObsYears[i], 7, 1) : i \in DOMAIN ObsYears}

\* a regular grid with the target point next to the cell <<2, 2>>, in either
\* longitude convention
LatAxis == <<50000, 57000>>

LonAxisWest == <<-60000, -52000, -40000>>

LonAxisEast == <<300000, 308000, 320000>>

\* three depth levels around 2200, of thickness 2, 2 and 4
Lev == <<2198, 2200, 2203>>

LevBnds == << <<2197, 2199>>, <<2199, 2201>>, <<2201, 2205>> >>

\* the depths of the observed profile
ObsDepths == {2199, 2200, 2202}

Cells == (DOMAIN LatAxis) \X (DOMAIN LonAxisWest)

\* a land cell: no value at any level
Land == [k \in DOMAIN Lev |-> NaN]

\* A dataset sampled once a year (January 16) in the years given, whose
\* concentration at the target cell is up[y] + off[k]/1000 in the two upper
\* levels and low[y] + off[3]/1000 in the lowest one, and whose flux there is
\* constant, g tenths of mol/m2/yr; every other cell is land (NaN).
Dataset(lonAxis, years, up, low, off, g) ==
  [avail |-> TRUE, lat |-> LatAxis, lon |-> lonAxis,
   time |-> [i \in DOMAIN years |-> Date(years[i], 1, 16)],
   ftime |-> [i \in DOMAIN years |-> Date(years[i], 1, 16)],
   lev |-> Lev, lev_bnds |-> LevBnds,
   o2 |-> [c \in Cells |->
            [t \in DOMAIN years |->
               IF c # <<2, 2>> THEN Land
               ELSE [k \in DOMAIN Lev |->
                       FAdd(IF k <= 2 THEN up[years[t]] ELSE low[years[t]],
                            Norm(off[k], 1000))]]],
   fgo2 |-> [c \in Cells |->
              [t \in DOMAIN years |->
                 IF c # <<2, 2>> THEN NaN ELSE Norm(g, 315360000)]]]

\* a model whose files cannot be opened
Unavailable == [avail |-> FALSE]

\* a yearly series given by a sequence of integers along ObsYears
Series(p) == [y \in Range(ObsYears) |-> Num(p[CHOOSE i \in DOMAIN ObsYears : ObsYears[i] = y])]

Mean5(p) == FMean([i \in DOMAIN p |-> Num(p[i])])

\* The observations that belong to yearly concentrations p (upper levels) and
\* q (lowest level): the inventories 4p and 4q, and the mean profile at the
\* observed depths.
Observed(p, q) ==
  [lsw |-> [index |-> ObsIndex, cols |-> <<"Obs">>,
            val |-> [c \in {"Obs"} |->
                       [ts \in ObsIndex |-> FMul(Num(4), Series(p)[YearOf(ts)])]]],
   bot |-> [index |-> ObsIndex, cols |-> <<"Obs">>,
            val |-> [c \in {"Obs"} |->
                       [ts \in ObsIndex |-> FMul(Num(4), Series(q)[YearOf(ts)])]]],
   prof |-> [index |-> ObsDepths, cols |-> <<"Obs">>,
             val |-> [c \in {"Obs"} |->
                        [d \in ObsDepths |->
                           FMul(Num(1000),
                                IF d <= 2200 THEN Mean5(p)
                                ELSE FAdd(Mean5(p),
                                          FMul(Norm(2, 3), FSub(Mean5(q), Mean5(p)))))]]]]

\* observed cases: an LSW inventory that declines from the early 1990s to the
\* 2000s, one that rises, and a constant one
ObsCases ==
  { [p |-> <<2, 2, 1, 0, 1>>, q |-> <<1, 0, 2, 1, 1>>],
    [p |-> <<0, 1, 1, 2, 2>>, q |-> <<1, 0, 2, 1, 1>>],
    [p |-> <<1, 1, 1, 1, 1>>, q |-> <<1, 1, 1, 1, 1>>] }

Declining == [p |-> <<2, 2, 1, 0, 1>>, q |-> <<1, 0, 2, 1, 1>>]

Conc == {Num(v) : v \in 0..MaxVal}

NoOff == <<0, 0, 0>>

\* the observed flux in tenths of mol/m2/yr, rounded up: 22.7
FluxRef == (10 * GexObs[1]) \div GexObs[2] + 1

\* a model that reproduces the observed case o, sampled in the years ys
Twin(lonAxis, o, ys) ==
  Dataset(lonAxis, ys, Series(o.p), Series(o.q), NoOff, FluxRef)

\* ObsYears without the k-th year (all of them for k = 0)
Without(k) == SelectSeq(ObsYears, LAMBDA y : k = 0 \/ y # ObsYears[k])

\* profile offsets, in umol/L
Offsets == {-30, -8, 0, 5, 30}

\* the input in which the first model is ds and the second reproduces the
\* observed case o in the years ys
Input(o, ds, ys) ==
  [csv |-> Observed(o.p, o.q),
   files |-> [m \in Range(infl) |-> IF m = infl[1] THEN ds ELSE Twin(LonAxisWest, o, ys)]]

\* the years in which the runs vary the concentrations of a model: all but
\* 1995, where the model keeps the value base gives it
FreeYears == Range(ObsYears) \ {1995}

Free(v, base) == [y \in Range(ObsYears) |-> IF y \in FreeYears THEN v[y] ELSE base[y]]

\* The runs: each varies one part of the input and keeps the rest at a model
\* that reproduces the observations.
\* 1. the LSW concentrations of the first model: every series over 0..MaxVal
VaryLsw(o, up) ==
  Input(o, Dataset(LonAxisEast, ObsYears, Free(up, Series(o.p)), Series(o.q), NoOff, FluxRef),
        ObsYears)

\* 2. the same, beside a second model that misses the k-th year
VaryLswBeside(up, k) ==
  Input(Declining, Dataset(LonAxisEast, ObsYears, Free(up, Series(Declining.p)),
                           Series(Declining.q), NoOff, FluxRef),
        Without(k))

\* 3. the lower-layer concentrations of the first model
VaryBot(low) ==
  Input(Declining, Dataset(LonAxisEast, ObsYears, Series(Declining.p),
                           Free(low, Series(Declining.q)), NoOff, FluxRef),
        ObsYears)

\* 4. the first model misses the k-th year (none for k = 0) and has the value
\*    v, possibly none, in the j-th
VaryGaps(o, k, j, v) ==
  Input(o, Dataset(LonAxisEast, Without(k), [Series(o.p) EXCEPT ![ObsYears[j]] = v],
                   Series(o.q), NoOff, FluxRef), ObsYears)

\* 5. the profile offsets of the first model
VaryProf(off) ==
  Input(Declining, Dataset(LonAxisEast, ObsYears, Series(Declining.p), Series(Declining.q),
                           off, FluxRef), ObsYears)

\* 6. the mean flux of the first model
VaryGex(g) ==
  Input(Declining, Dataset(LonAxisEast, ObsYears, Series(Declining.p), Series(Declining.q),
                           NoOff, g), ObsYears)

\* 7. the files of the models in gone cannot be opened
VaryAvail(o, gone) ==
  [csv |-> Observed(o.p, o.q),
   files |-> [m \in Range(infl) |->
                IF m \in gone THEN Unavailable ELSE Twin(LonAxisWest, o, ObsYears)]]

\* 8. the observed inventory of one layer has no value in the j-th year
VaryObsGap(layer, j) ==
  LET in == VaryGex(FluxRef)
      ts == Date(ObsYears[j], 7, 1)
  IN  IF layer = "lsw"
      THEN [in EXCEPT !.csv.lsw.val["Obs"][ts] = NaN]
      ELSE [in EXCEPT !.csv.bot.val["Obs"][ts] = NaN]

\* the dataset ds with one more level below its deepest one, 2 m thick and
\* with the concentration of the level above it
Deeper(ds) ==
  LET n == Len(ds.lev)
  IN  [ds EXCEPT !.lev = Append(ds.lev, ds.lev_bnds[n][2] + 1),
                 !.lev_bnds = Append(ds.lev_bnds, <<ds.lev_bnds[n][2], ds.lev_bnds[n][2] + 2>>),
                 !.o2 = [c \in DOMAIN ds.o2 |->
                           [t \in DOMAIN ds.time |->
                              [k \in 1..(n + 1) |-> ds.o2[c][t][IF k > n THEN n ELSE k]]]]]

\* the dataset ds without a value at the levels in K of its j-th time step
Blank(ds, j, K) ==
  [ds EXCEPT !.o2 = [c \in DOMAIN ds.o2 |->
                       [t \in DOMAIN ds.time |->
                          [k \in DOMAIN ds.lev |->
                             IF t = j /\ k \in K THEN NaN ELSE ds.o2[c][t][k]]]]]

\* 9. the first model has four levels and no value at the levels in K in the
\*    j-th year
VaryMissing(o, j, K) ==
  Input(o, Blank(Deeper(Twin(LonAxisEast, o, ObsYears)), j, K), ObsYears)

\* the longitudes of a global grid of spacing s whose first cell centre is o
\* degrees east of Greenwich (thousandths of a degree), in the convention
\* [0, 360) and in the convention [-180, 180)
LonEast(s, o) == Labels({(o + k * s) % 360000 : k \in 0..((360000 \div s) - 1)})

LonWest(s, o) ==
  Labels({((o + k * s + 180000) % 360000) - 180000 : k \in 0..((360000 \div s) - 1)})

\* the number of the grid column at longitude x, counted eastward from Greenwich
Column360(x, s) == (x % 360000) \div s

\* A field on the grid latAxis x lonAxis of spacing s, sampled once a year,
\* with a value in every cell: the concentrations and the flux of a cell are
\* given by the place of the cell on the globe, whatever the convention of
\* the longitude axis.
GridDataset(latAxis, lonAxis, s) ==
  LET P(c) == Column360(lonAxis[c[2]], s)
  IN  [avail |-> TRUE, lat |-> latAxis, lon |-> lonAxis,
       time |-> [i \in DOMAIN ObsYears |-> Date(ObsYears[i], 1, 16)],
       ftime |-> [i \in DOMAIN ObsYears |-> Date(ObsYears[i], 1, 16)],
       lev |-> Lev, lev_bnds |-> LevBnds,
       o2 |-> [c \in (DOMAIN latAxis) \X (DOMAIN lonAxis) |->
                [t \in DOMAIN ObsYears |->
                   [k \in DOMAIN Lev |->
                      IF k <= 2 THEN Num((P(c) + c[1] + t) % (MaxVal + 1))
                      ELSE Num((P(c) + t + 1) % (MaxVal + 1))]]],
       fgo2 |-> [c \in (DOMAIN latAxis) \X (DOMAIN lonAxis) |->
                  [t \in DOMAIN ObsYears |-> Norm(FluxRef + P(c), 315360000)]]]

\* grid spacings and first cell centres of the global grids
GridSteps == {30000, 45000, 60000, 90000}

GridOffsets == {0, 7780, 15280, 22780}

\* 10. the same global field given to the first model on a grid in [0, 360)
\*     and to the second on the equivalent grid in [-180, 180)
VaryGrid(s, o) ==
  [csv |-> Observed(Declining.p, Declining.q),
   files |-> [m \in Range(infl) |->
                IF m = infl[1] THEN GridDataset(LatAxis, LonEast(s, o), s)
                ELSE GridDataset(LatAxis, LonWest(s, o), s)]]

\* regional grids of spacing 10 degrees: latitude and longitude axes that end
\* short of the target point on one side, and the axes around it
RegionStep == 10000

RegionLats == {<<40000, 50000>>, <<60000, 70000>>, LatAxis}

RegionLons ==
  {<<-80000, -70000, -60000>>, <<-50000, -40000, -30000>>,
   <<280000, 290000, 300000>>, <<310000, 320000, 330000>>, LonAxisWest}

\* 11. the first model holds a regional field on the axes latAxis, lonAxis
VaryRegion(latAxis, lonAxis) ==
  Input(Declining, GridDataset(latAxis, lonAxis, RegionStep), ObsYears)

\* the dataset ds with the flux f (mol/m2/s) wherever it has a flux
WithFlux(ds, f) ==
  [ds EXCEPT !.fgo2 = [c \in DOMAIN ds.fgo2 |->
                         [t \in DOMAIN ds.ftime |->
                            IF IsNaN(ds.fgo2[c][t]) THEN NaN ELSE f]]]

\* the dataset ds with q (mol/m3) added to every concentration
OffsetBy(ds, q) ==
  [ds EXCEPT !.o2 = [c \in DOMAIN ds.o2 |->
                       [t \in DOMAIN ds.time |->
                          [k \in DOMAIN ds.lev |-> FAdd(ds.o2[c][t][k], q)]]]]

\* a flux of perYear mol/m2/yr in mol/m2/s
PerSecond(perYear) == FDiv(perYear, Num(31536000))

\* a model that is the observed case o exactly, the gas exchange included
Exact(o) == WithFlux(Twin(LonAxisEast, o, ObsYears), PerSecond(GexObs))

\* biases of the concentration, in tenths of umol/L, and of the gas exchange,
\* in tenths of mol/m2/yr
ConcBiases == {-300, -6, -5, -4, 4, 5, 6, 300}

FluxBiases == {0, 1, 31, 32, 100}

\* 12. the first model is the observations exactly, the second is the first
\*     with the bias b on every concentration and the bias gb on the flux
VaryBias(o, b, gb) ==
  [csv |-> Observed(o.p, o.q),
   files |-> [m \in Range(infl) |->
                IF m = infl[1] THEN Exact(o)
                ELSE WithFlux(OffsetBy(Exact(o), Norm(b, 10000)),
                              PerSecond(FAdd(GexObs, Norm(gb, 10))))]]

\* the dataset ds with a second time step in each of its years, on
\* September 16, that has the concentrations of the same year in ds2
Twice(ds, ds2) ==
  LET n == Len(ds.time)
      first(i) == (i + 1) \div 2
  IN  [ds EXCEPT
         !.time = [i \in 1..(2 * n) |->
                     IF i % 2 = 1 THEN ds.time[first(i)]
                     ELSE Date(YearOf(ds.time[first(i)]), 9, 16)],
         !.ftime = [i \in 1..(2 * n) |->
                      IF i % 2 = 1 THEN ds.ftime[first(i)]
                      ELSE Date(YearOf(ds.ftime[first(i)]), 9, 16)],
         !.o2 = [c \in DOMAIN ds.o2 |->
                   [i \in 1..(2 * n) |->
                      IF i % 2 = 1 THEN ds.o2[c][first(i)] ELSE ds2.o2[c][first(i)]]],
         !.fgo2 = [c \in DOMAIN ds.fgo2 |->
                     [i \in 1..(2 * n) |-> ds.fgo2[c][first(i)]]]]

\* 13. the first model has two time steps a year, misses the k-th year (none
\*     for k = 0), and has the concentration v at both layers in the second
\*     time step of the j-th year
VaryTwice(k, j, v) ==
  Input(Declining,
        Twice(Twin(LonAxisEast, Declining, Without(k)),
              Dataset(LonAxisEast, Without(k),
                      [Series(Declining.p) EXCEPT ![ObsYears[j]] = v],
                      [Series(Declining.q) EXCEPT ![ObsYears[j]] = v], NoOff, FluxRef)),
        ObsYears)

\* years of a model that ends before or at the first observed year
EarlyYears == <<1985, 1990>>

\* 14. the first model has the concentration v in the first n of the early
\*     years and no time step after them, and the observed inventories have
\*     no value in the j-th year (all of them have one for j = 0)
VaryEarly(o, n, j, v) ==
  LET in == Input(o, Dataset(LonAxisEast, SubSeq(EarlyYears, 1, n),
                             [y \in Range(EarlyYears) |-> v],
                             [y \in Range(EarlyYears) |-> v], NoOff, FluxRef),
                  ObsYears)
      gap == [ts \in ObsIndex |-> j # 0 /\ YearOf(ts) = ObsYears[IF j = 0 THEN 1 ELSE j]]
  IN  [in EXCEPT !.csv.lsw.val["Obs"] = [ts \in ObsIndex |-> IF gap[ts] THEN NaN ELSE @[ts]],
                 !.csv.bot.val["Obs"] = [ts \in ObsIndex |-> IF gap[ts] THEN NaN ELSE @[ts]]]

Given(in) == csv = in.csv /\ files = in.files

\* the state after cell 8a39ae84 has read the observations
Init ==
  /\ \/ \E o \in ObsCases, up \in [FreeYears -> Conc] : Given(VaryLsw(o, up))
     \/ \E up \in [FreeYears -> Conc], k \in {2, 5} : Given(VaryLswBeside(up, k))
     \/ \E low \in [FreeYears -> Conc] : Given(VaryBot(low))
     \/ \E o \in ObsCases, k \in 0..Len(ObsYears), j \in DOMAIN ObsYears, v \in {NaN, Num(0)} :
          Given(VaryGaps(o, k, j, v))
     \/ \E off \in [1..3 -> Offsets] : Given(VaryProf(off))
     \/ \E g \in 0..MaxFlux : Given(VaryGex(g))
     \/ \E o \in ObsCases, gone \in (SUBSET Range(infl)) \ {{}} : Given(VaryAvail(o, gone))
     \/ \E layer \in {"lsw", "bot"}, j \in DOMAIN ObsYears : Given(VaryObsGap(layer, j))
     \/ \E o \in ObsCases, j \in DOMAIN ObsYears, K \in SUBSET (1..(Len(Lev) + 1)) :
          Given(VaryMissing(o, j, K))
     \/ \E s \in GridSteps, o \in GridOffsets : Given(VaryGrid(s, o))
     \/ \E o \in ObsCases, b \in ConcBiases, gb \in FluxBiases : Given(VaryBias(o, b, gb))
     \/ \E k \in 0..Len(ObsYears), j \in DOMAIN ObsYears, v \in Conc : Given(VaryTwice(k, j, v))
     \/ \E o \in ObsCases, n \in DOMAIN EarlyYears, j \in 0..1, v \in Conc :
          Given(VaryEarly(o, n, j, v))
     \/ \E latAxis \in RegionLats, lonAxis \in RegionLons : Given(VaryRegion(latAxis, lonAxis))
  /\ df_o2inv_lsw = csv.lsw
  /\ df_o2inv_bot = csv.bot
  /\ df_o2_prof = csv.prof
  /\ df_gex = [c \in {"Obs"} |-> GexObs]
  /\ nn = 0
  /\ pc = "load"
  /\ failed = "none"
  /\ lsw_corr = None /\ scr_corr = None /\ lsw_max = None /\ scr_max = None
  /\ bot_std = None /\ scr_std = None /\ scr_prof_1 = None /\ scr_prof_2 = None
  /\ scr_prof = None /\ scr_gex = None /\ scr = None

Next ==
  \/ LoadModel
  \/ LoadFail
  \/ DropnaAnomaly
  \/ CorrScore
  \/ MaxScore
  \/ StdScore
  \/ ProfScore
  \/ GexScore
  \/ TotalScore

Spec == Init /\ [][Next]_vars

(***************************************************************************)
(* Properties                                                              *)
(***************************************************************************)
\* the cells in the order in which the notebook runs them
Cells_order == <<"load", "dropna", "corr", "max", "std", "prof", "gex", "total", "done">>

\* the run has finished the cell named stage
Past(stage) ==
  \E i, j \in DOMAIN Cells_order :
    Cells_order[i] = stage /\ Cells_order[j] = pc /\ i < j

InRange(x, lo, hi) == FLe(Num(lo), x) /\ FLe(x, Num(hi))

\* v itself: the comparison makes TLC work out a table once, and not again
\* at every later look at one of its entries
Once(v) == IF v = v THEN v ELSE v

Models == Range(infl)

\* C1: the total score of a model, the sum of its five component scores, lies
\* in [0, 100] whenever its correlation is defined, the extremum differences
\* and standard deviations are numbers and those of the observations are not 0.
C1_TotalWithin100 ==
  pc = "done" =>
    \A m \in Models :
      ( /\ ~IsNaN(lsw_corr[m].sq)
        /\ IsFinite(lsw_max[m]) /\ IsFinite(lsw_max["Obs"]) /\ lsw_max["Obs"] # Num(0)
        /\ IsFinite(bot_std[m]) /\ IsFinite(bot_std["Obs"]) /\ bot_std["Obs"] # Num(0) )
      => InRange(scr[m], 0, 100)

\* C2: the correlation score lies in [0, 20] for every defined correlation
\* (every correlation in [-1, 1]).
C2_CorrScoreWithin20 ==
  Past("corr") =>
    \A c \in DOMAIN scr_corr :
      ~IsNaN(lsw_corr[c].sq) => InRange(scr_corr[c], 0, 20)

\* C3: the extremum score lies in [0, 20] for every pair of extremum
\* differences in which that of the observations is not 0, whatever the signs.
C3_MaxScoreWithin20 ==
  Past("max") =>
    \A c \in DOMAIN scr_max :
      (IsFinite(lsw_max[c]) /\ IsFinite(lsw_max["Obs"]) /\ lsw_max["Obs"] # Num(0))
      => InRange(scr_max[c], 0, 20)

\* C4: the variability score lies in [0, 20] whenever the standard deviation
\* of the model is a number >= 0 and that of the observations is > 0, although
\* no clamp is applied to it.
C4_StdScoreWithin20 ==
  Past("std") =>
    \A c \in DOMAIN scr_std :
      (IsFinite(bot_std[c]) /\ FGe(bot_std[c], Num(0)) /\ IsFinite(bot_std["Obs"])
       /\ FGt(bot_std["Obs"], Num(0)))
      => InRange(scr_std[c], 0, 20)

\* C4 happens: a model more variable than the observations has been scored
\* through the inverse ratio, below 20
C4_Witness ==
  /\ pc = "done"
  /\ FGt(bot_std["Obs"], Num(0))
  /\ FGt(bot_std[infl[1]], bot_std["Obs"])
  /\ FGt(scr_std[infl[1]], Num(0)) /\ FLt(scr_std[infl[1]], Num(20))

\* the aligned series and the profile of model m are those of the observations
Identical(m) ==
  /\ Aligned(files[m].time, o2_inv(files[m]), csv.lsw.index) = csv.lsw.val["Obs"]
  /\ Aligned(files[m].time, o2_inv_bot(files[m]), csv.bot.index) = csv.bot.val["Obs"]
  /\ ProfColumn(files[m], csv.prof.index) = csv.prof.val["Obs"]

\* C5: a model whose series and profile are identical to the observed ones
\* (constant series included) gets 20 for the correlation, 20 for the profile
\* and 20 each for the variability and the extremum.
C5_IdenticalScores20 ==
  pc = "done" =>
    \A m \in Models :
      Identical(m) =>
        /\ scr_corr[m] = Num(20)
        /\ scr_prof[m] = Num(20)
        /\ scr_std[m] = Num(20)
        /\ scr_max[m] = Num(20)

\* the tables of a run in which m is the only model, after cell 345cf010
SoloLsw(m) == Once(Anomaly(Once(DropNa(Once(LoadLsw(csv.lsw, m, files[m]))))))

SoloBot(m) == Once(Anomaly(Once(DropNa(Once(LoadBot(csv.bot, m, files[m]))))))

\* the five scores of model m in a run in which it is the only model, and the
\* rows left of its two inventory tables
SoloScr(m) ==
  LET lsw == SoloLsw(m)
      bot == SoloBot(m)
  IN  [corr |-> ScrCorr(Pearson(lsw, m)),
       max  |-> ScrMax(LswMax(lsw), m),
       std  |-> ScrStd(BotStd(bot), m),
       prof |-> ScrProf(Once(LoadProf(csv.prof, m, files[m])), m),
       gex  |-> ScrGex(LoadGex([c \in {"Obs"} |-> GexObs], m, files[m]), m),
       lsw_rows |-> lsw.index,
       bot_rows |-> bot.index]

\* the five scores of model m in the run at hand
BatchScr(m) ==
  [corr |-> scr_corr[m], max |-> scr_max[m], std |-> scr_std[m],
   prof |-> scr_prof[m], gex |-> scr_gex[m],
   lsw_rows |-> df_o2inv_lsw.index, bot_rows |-> df_o2inv_bot.index]

Scores == {"corr", "max", "std", "prof", "gex"}

\* C6 as stated: the scores of a model are those it gets when scored alone,
\* whatever the other model of the batch and its missing years.
C6_ScoresAsAlone ==
  pc = "done" =>
    \A m \in Models :
      LET solo == SoloScr(m)
      IN  \A k \in Scores : BatchScr(m)[k] = solo[k]

\* C6: the profile and gas exchange scores of a model are those it gets when
\* scored alone; its correlation and extremum scores are so whenever the rows
\* left of the LSW table are those left when it is alone, and its variability
\* score whenever the rows left of the lower-layer table are (a year that
\* another model misses is dropped for every model and can change them).
C6_ScoresAsAloneOnSameRows ==
  pc = "done" =>
    \A m \in Models :
      LET solo == SoloScr(m)
      IN  /\ scr_prof[m] = solo.prof
          /\ scr_gex[m] = solo.gex
          /\ solo.lsw_rows = df_o2inv_lsw.index
               => scr_corr[m] = solo.corr /\ scr_max[m] = solo.max
          /\ solo.bot_rows = df_o2inv_bot.index => scr_std[m] = solo.std

\* C6 happens: the first model misses a year, the second none, and the two
\* have got different scores on the rows left
C6_Witness ==
  /\ pc = "done"
  /\ df_o2inv_lsw.index # csv.lsw.index
  /\ SoloScr(infl[1]).lsw_rows = df_o2inv_lsw.index
  /\ scr_corr[infl[1]] # scr_corr[infl[2]]
  /\ ~IsNaN(scr_corr[infl[1]])

\* the rows of a table in which the observation and the aligned series of
\* every model are defined
CommonRows(table, aligned) ==
  LET col == Once(aligned)
  IN  {ts \in table.index :
         ~IsNaN(table.val["Obs"][ts]) /\ \A m \in Models : ~IsNaN(col[m][ts])}

\* the aligned series of every model, as the loop works them out
LswColumns == [m \in Models |-> Aligned(files[m].time, o2_inv(files[m]), csv.lsw.index)]

BotColumns == [m \in Models |-> Aligned(files[m].time, o2_inv_bot(files[m]), csv.bot.index)]

\* table holds exactly the rows given, in every column, and no NaN
HoldsRows(table, rows) ==
  /\ table.index = rows
  /\ \A c \in DOMAIN table.val :
       /\ DOMAIN table.val[c] = rows
       /\ \A ts \in rows : ~IsNaN(table.val[c][ts])

\* C7: from the correlation cell on, both inventory tables hold exactly the
\* timestamps at which the observation and every model are defined, in every
\* column; a missing year of one model never ends the run.
C7_CommonSupport ==
  /\ Past("dropna") =>
       /\ HoldsRows(df_o2inv_lsw, CommonRows(csv.lsw, LswColumns))
       /\ HoldsRows(df_o2inv_bot, CommonRows(csv.bot, BotColumns))
  /\ pc = "failed" => \E m \in Models : ~files[m].avail

\* C7 happens: all scores are there, a year that one model misses has gone
\* from the column of the other and of the observations, the rest is left
C7_Witness ==
  /\ pc = "done"
  /\ \E ts \in csv.lsw.index :
       /\ ts \notin df_o2inv_lsw.index
       /\ ~IsNaN(csv.lsw.val["Obs"][ts])
       /\ IsNaN(Aligned(files[infl[1]].time, o2_inv(files[infl[1]]), csv.lsw.index)[ts])
       /\ ~IsNaN(Aligned(files[infl[2]].time, o2_inv(files[infl[2]]), csv.lsw.index)[ts])
  /\ Cardinality(df_o2inv_lsw.index) >= 2

GexDist(c) == FAbs(FSub(df_gex["Obs"], df_gex[c]))

\* round((23.4 - dist)/1.04), kept within 0..20: the score formula with
\* std_gex = 5.2 put in
GexExpected(dist) ==
  LET r == FRound(FDiv(FSub(Num(2340), FMul(Num(100), dist)), Num(104)))
  IN  IF FLt(r, Num(0)) THEN Num(0) ELSE IF FGt(r, Num(20)) THEN Num(20) ELSE r

\* the gas exchange table with the value of column c moved away from the
\* observed one by step more
GexFarther(c, step) ==
  [df_gex EXCEPT ![c] = FAdd(df_gex["Obs"], FAdd(GexDist(c), step))]

\* C9: the gas exchange score is round(20 - (|obs - model| - 5.2/2)/(4*5.2)*20)
\* kept within [0, 20]: it is 20 whenever the model is within 2.6 of the
\* observed value, lies in [0, 20], and does not rise when the distance grows.
C9_GexScore ==
  Past("gex") =>
    \A c \in DOMAIN scr_gex :
      /\ scr_gex[c] = GexExpected(GexDist(c))
      /\ FLe(GexDist(c), Norm(26, 10)) => scr_gex[c] = Num(20)
      /\ InRange(scr_gex[c], 0, 20)
      /\ \A step \in {Norm(1, 10), Num(1), Num(10)} :
           FLe(ScrGex(GexFarther(c, step), c), scr_gex[c])

\* C9 happens: a model farther than 2.6 from the observed value has got a
\* score strictly between 0 and 20
C9_Witness ==
  /\ pc = "done"
  /\ FGt(GexDist(infl[1]), Norm(26, 10))
  /\ FGt(scr_gex[infl[1]], Num(0)) /\ FLt(scr_gex[infl[1]], Num(20))

\* C10: each of the two layer scores of the profile lies in [0, 10], and their
\* rounded sum, the profile score, in [0, 20].
C10_ProfScoreWithin20 ==
  Past("prof") =>
    \A c \in DOMAIN scr_prof :
      /\ InRange(scr_prof_1[c], 0, 10)
      /\ InRange(scr_prof_2[c], 0, 10)
      /\ scr_prof[c] = FRound(FAdd(scr_prof_1[c], scr_prof_2[c]))
      /\ InRange(scr_prof[c], 0, 20)

\* C10 happens: the upper layer score of a model has been set to 0 and its
\* lower layer score, of a negative mean bias, lies strictly between 0 and 10
C10_Witness ==
  /\ pc = "done"
  /\ scr_prof_1[infl[1]] = Num(0)
  /\ FGt(scr_prof_2[infl[1]], Num(0)) /\ FLt(scr_prof_2[infl[1]], Num(10))
  /\ FLt(MeanSkipNa(Vals(o2_diff(df_o2_prof)[infl[1]],
                         {d \in df_o2_prof.index : d >= lev2200})), Num(0))

\* the depths of the two layers of the profile table
UpperDepths(df) == {d \in df.index : d < lev2200}

LowerDepths(df) == {d \in df.index : d >= lev2200}

\* the mean bias of column c over the depths of a layer
LayerBias(df, c, layer) == MeanSkipNa(Vals(o2_diff(df)[c], layer))

\* the profile table with the sign of every bias of column c in a layer flipped
FlipLayer(df, c, layer) ==
  [df EXCEPT !.val[c] =
     [d \in df.index |->
        IF d \in layer
        THEN FSub(df.val["Obs"][d], FSub(df.val[c][d], df.val["Obs"][d]))
        ELSE df.val[c][d]]]

\* C11: the profile score of a model stays the same when the sign of every
\* bias in one of its layers is flipped: biases of opposite sign in the two
\* layers do not cancel.
C11_LayerSignFlip ==
  Past("prof") =>
    \A m \in Models :
      /\ ScrProf(FlipLayer(df_o2_prof, m, UpperDepths(df_o2_prof)), m) = scr_prof[m]
      /\ ScrProf(FlipLayer(df_o2_prof, m, LowerDepths(df_o2_prof)), m) = scr_prof[m]

\* C11 happens: a model with the same mean bias b > 0 in both layers has got a
\* score below 20, the score of the profile with +b above and -b below
C11_Witness ==
  /\ pc = "done"
  /\ LET up  == LayerBias(df_o2_prof, infl[1], UpperDepths(df_o2_prof))
         low == LayerBias(df_o2_prof, infl[1], LowerDepths(df_o2_prof))
         flipped == FlipLayer(df_o2_prof, infl[1], LowerDepths(df_o2_prof))
     IN  /\ FGt(up, Num(0)) /\ up = low
         /\ LayerBias(flipped, infl[1], LowerDepths(df_o2_prof)) = FNeg(up)
         /\ FGt(scr_prof[infl[1]], Num(0)) /\ FLt(scr_prof[infl[1]], Num(20))

\* the calendar years in which dataset ds has a sample
SampleYears(ds) == {YearOf(ds.time[t]) : t \in DOMAIN ds.time}

\* the models merged into the tables so far
Loaded == {infl[i] : i \in 1..nn}

\* the inventory tables are as the loop leaves them (no row dropped yet)
Merged == pc \in {"load", "dropna"}

\* the column of a model is on the index of the observations and has no
\* value in the years in which the model has no sample
OutsideUndefined(table, obs, m) ==
  /\ DOMAIN table.val[m] = obs.index
  /\ table.index = obs.index
  /\ \A ts \in obs.index :
       YearOf(ts) \notin SampleYears(files[m]) => IsNaN(table.val[m][ts])

\* C12: the aligned series of a model is on exactly the index of the
\* observations, and undefined at every observation timestamp for which the
\* model has no data, those before its first year as well as those after its
\* last year.
C12_AlignedUndefinedOutside ==
  Merged =>
    \A m \in Loaded :
      /\ OutsideUndefined(df_o2inv_lsw, csv.lsw, m)
      /\ OutsideUndefined(df_o2inv_bot, csv.bot, m)

\* resample("Y").mean() and reindex(index, method='bfill') applied to a
\* column that is on the index already
Realigned(col, index) ==
  LET time == Labels(index)
  IN  Aligned(time, [i \in DOMAIN time |-> col[time[i]]], index)

\* C13: aligning once more the aligned annual series of a model, to the same
\* observational index, gives that series again.
C13_AlignIdempotent ==
  Merged =>
    \A m \in Loaded :
      /\ Realigned(df_o2inv_lsw.val[m], csv.lsw.index) = df_o2inv_lsw.val[m]
      /\ Realigned(df_o2inv_bot.val[m], csv.bot.index) = df_o2inv_bot.val[m]

\* C13 happens: the aligned series of a model, with a year without value and
\* different values in other years, has been aligned again
C13_Witness ==
  /\ pc = "dropna"
  /\ LET col == df_o2inv_lsw.val[infl[1]]
     IN  /\ \E ts \in csv.lsw.index : IsNaN(col[ts])
         /\ \E a, b \in csv.lsw.index : ~IsNaN(col[a]) /\ ~IsNaN(col[b]) /\ col[a] # col[b]
         /\ Realigned(col, csv.lsw.index) = col

\* the field at the target cell has a value at every time step and level
NoMissing(ds) ==
  \A t \in DOMAIN ds.time : \A k \in DOMAIN ds.lev : ~IsNaN(ds_o2_cls(ds)[t][k])

\* the inventory of the whole column per time step: every level times its thickness
o2_invColumn(ds) ==
  LET inv0 == o2_inv0(ds)
  IN  [t \in DOMAIN ds.time |-> FSum(Vals(inv0[t], DOMAIN ds.lev))]

\* C14: for a model without missing values the LSW inventory and the
\* lower-layer inventory add up to the thickness-weighted sum of the
\* concentration over all levels, at every time step and in the merged tables.
C14_LayersPartitionColumn ==
  Merged =>
    \A m \in Loaded :
      NoMissing(files[m]) =>
        LET ds == files[m]
            whole == Once(Aligned(ds.time, o2_invColumn(ds), csv.lsw.index))
        IN  /\ \A t \in DOMAIN ds.time :
                 FAdd(o2_inv(ds)[t], o2_inv_bot(ds)[t]) = o2_invColumn(ds)[t]
            /\ \A ts \in csv.lsw.index \cap csv.bot.index :
                 FAdd(df_o2inv_lsw.val[m][ts], df_o2inv_bot.val[m][ts]) = whole[ts]

\* C14 happens: a model with different, non-zero inventories in the two layers
\* has been merged
C14_Witness ==
  /\ pc = "dropna"
  /\ NoMissing(files[infl[1]])
  /\ \E ts \in csv.lsw.index :
       LET a == df_o2inv_lsw.val[infl[1]][ts]
           b == df_o2inv_bot.val[infl[1]][ts]
       IN  /\ FGt(a, Num(0)) /\ FGt(b, Num(0)) /\ a # b
           /\ FAdd(a, b) = Aligned(files[infl[1]].time, o2_invColumn(files[infl[1]]),
                                   csv.lsw.index)[ts]

\* the levels of the two layers of the inventories
UpperLevels(ds) == {k \in DOMAIN ds.lev : ds.lev[k] <= lev2200}

LowerLevels(ds) == {k \in DOMAIN ds.lev : ds.lev[k] > lev2200}

\* the levels in K without a value at time step t
MissingAt(ds, t, K) == {k \in K : IsNaN(ds_o2_cls(ds)[t][k])}

\* the sum of the terms that have a value, counted level by level
RECURSIVE SumPresent(_, _)
SumPresent(row, K) ==
  IF K = {} THEN Num(0)
  ELSE LET k == CHOOSE x \in K : TRUE
       IN  FAdd(IF IsNaN(row[k]) THEN Num(0) ELSE row[k], SumPresent(row, K \ {k}))

\* the years with exactly one time step in ds
SingleYears(ds) ==
  {y \in SampleYears(ds) : Cardinality({t \in DOMAIN ds.time : YearOf(ds.time[t]) = y}) = 1}

\* C15: at every time step the lower-layer inventory is the sum over the lower
\* levels that have a value (zero when none has), never undefined, while the
\* LSW inventory is undefined exactly when one of its levels has no value;
\* the merged tables carry these values in the years of the time steps.
C15_MissingLevels ==
  Merged =>
    \A m \in Loaded :
      LET ds == files[m]
          inv0 == Once(o2_inv0(ds))
          lsw == Once(o2_inv(ds))
          bot == Once(o2_inv_bot(ds))
      IN  \A t \in DOMAIN ds.time :
            LET ts == Date(YearOf(ds.time[t]), 7, 1)
            IN  /\ bot[t] = SumPresent(inv0[t], LowerLevels(ds))
                /\ ~IsNaN(bot[t])
                /\ MissingAt(ds, t, LowerLevels(ds)) = LowerLevels(ds) => bot[t] = Num(0)
                /\ IsNaN(lsw[t]) <=> MissingAt(ds, t, UpperLevels(ds)) # {}
                /\ ts \in csv.bot.index /\ YearOf(ts) \in SingleYears(ds)
                     => df_o2inv_bot.val[m][ts] = bot[t]
                /\ ts \in csv.lsw.index /\ YearOf(ts) \in SingleYears(ds)
                     => df_o2inv_lsw.val[m][ts] = lsw[t]

\* C15 happens: a merged model has a time step where one lower level of two
\* and one upper level of two have no value; the lower inventory is the
\* other lower term, the LSW inventory has no value
C15_Witness ==
  /\ pc = "dropna"
  /\ LET ds == files[infl[1]]
     IN  \E t \in DOMAIN ds.time :
           LET ts == Date(YearOf(ds.time[t]), 7, 1)
           IN  /\ Cardinality(LowerLevels(ds)) = 2
               /\ Cardinality(MissingAt(ds, t, LowerLevels(ds))) = 1
               /\ Cardinality(MissingAt(ds, t, UpperLevels(ds))) = 1
               /\ FGt(df_o2inv_bot.val[infl[1]][ts], Num(0))
               /\ IsNaN(df_o2inv_lsw.val[infl[1]][ts])

\* the same place on the globe: longitudes that differ by whole turns
SameLon(x, y) == (x - y) % 360000 = 0

\* dsE, gridded in [0, 360), and dsW, gridded in [-180, 180), hold the same
\* field: the same latitudes, the same longitudes up to the convention, and in
\* cells at the same place the same values
Equivalent(dsE, dsW) ==
  /\ dsE.avail /\ dsW.avail
  /\ dsE.lat = dsW.lat
  /\ \A j \in DOMAIN dsE.lon : 0 <= dsE.lon[j] /\ dsE.lon[j] < 360000
  /\ \A j \in DOMAIN dsW.lon : -180000 <= dsW.lon[j] /\ dsW.lon[j] < 180000
  /\ \E j \in DOMAIN dsE.lon : dsE.lon[j] >= 180000
  /\ {x % 360000 : x \in Range(dsW.lon)} = Range(dsE.lon)
  /\ dsE.time = dsW.time /\ dsE.ftime = dsW.ftime
  /\ dsE.lev = dsW.lev /\ dsE.lev_bnds = dsW.lev_bnds
  /\ \A i \in DOMAIN dsE.lat : \A j \in DOMAIN dsE.lon : \A k \in DOMAIN dsW.lon :
       SameLon(dsE.lon[j], dsW.lon[k]) =>
         /\ dsE.o2[<<i, j>>] = dsW.o2[<<i, k>>]
         /\ dsE.fgo2[<<i, j>>] = dsW.fgo2[<<i, k>>]

\* C16: when one model holds a field gridded in [0, 360) and the other the
\* equivalent field gridded in [-180, 180), the target longitudes are
\* -52.22 + 360 and -52.22, the two selections are cells at the same place on
\* the globe, and the two models get the same columns in every table.
C16_SameCellInBothConventions ==
  \A a, b \in Models :
    files[a].avail /\ files[b].avail /\ Equivalent(files[a], files[b]) =>
      LET dsE == files[a]
          dsW == files[b]
      IN  /\ lon0(dsE.lon) = lonWest + 360000
          /\ lon0(dsW.lon) = lonWest
          /\ cls(dsE)[1] = cls(dsW)[1]
          /\ SameLon(dsE.lon[cls(dsE)[2]], dsW.lon[cls(dsW)[2]])
          /\ {a, b} \subseteq Loaded /\ Merged =>
               /\ df_o2inv_lsw.val[a] = df_o2inv_lsw.val[b]
               /\ df_o2inv_bot.val[a] = df_o2inv_bot.val[b]
               /\ df_o2_prof.val[a] = df_o2_prof.val[b]
               /\ df_gex[a] = df_gex[b]

\* C16 happens: both conventions of a global field whose cells all differ
\* from their neighbours have been sampled, the selected column carries
\* different numbers (j in one, k in the other) and the same values
C16_Witness ==
  /\ pc = "dropna"
  /\ Equivalent(files[infl[1]], files[infl[2]])
  /\ Len(files[infl[1]].lon) >= 6
  /\ cls(files[infl[1]])[2] # cls(files[infl[2]])[2]
  /\ df_o2inv_lsw.val[infl[1]] = df_o2inv_lsw.val[infl[2]]
  /\ \E ts \in csv.lsw.index : FGt(df_o2inv_lsw.val[infl[1]][ts], Num(0))
  /\ df_gex[infl[1]] = df_gex[infl[2]]

\* the target coordinate lies beyond the cells of the axis, more than half a
\* cell away from the first or the last of them
Beyond(axis, target) ==
  LET half == (axis[2] - axis[1]) \div 2
  IN  target < axis[1] - half \/ target > axis[Len(axis)] + half

\* the target point lies outside the coordinate bounds of the field
OutOfBounds(ds) == Beyond(ds.lat, lat0) \/ Beyond(ds.lon, lon0(ds.lon))

\* the cell at the edge of the axis on the side of the target, or the cell
\* nearest to it when the target is within the axis
EdgeOrNearest(axis, target) ==
  IF target < axis[1] THEN 1
  ELSE IF target > axis[Len(axis)] THEN Len(axis)
  ELSE SelNearest(axis, target)

BoundaryCell(ds) ==
  <<EdgeOrNearest(ds.lat, lat0), EdgeOrNearest(ds.lon, lon0(ds.lon))>>

\* the field of ds reduced to its cell c
At(ds, c) ==
  [ds EXCEPT !.lat = <<ds.lat[c[1]]>>, !.lon = <<ds.lon[c[2]]>>,
             !.o2 = [x \in {<<1, 1>>} |-> ds.o2[c]],
             !.fgo2 = [x \in {<<1, 1>>} |-> ds.fgo2[c]]]

RawLsw(m) == Aligned(files[m].time, o2_inv(files[m]), csv.lsw.index)

RawBot(m) == Aligned(files[m].time, o2_inv_bot(files[m]), csv.bot.index)

RawProf(m) == ProfColumn(files[m], csv.prof.index)

\* model m is the observations exactly: inventories, profile and gas exchange
ExactObs(m) == Identical(m) /\ GexValue(files[m]) = GexObs

\* column a is column b plus one number, not zero, at every label in S
ConstOffset(a, b, S) ==
  \E x \in S :
    LET d == FSub(a[x], b[x])
    IN  /\ IsFinite(d) /\ d # Num(0)
        /\ \A y \in S : FSub(a[y], b[y]) = d

\* model c is model m offset by a bias
OffsetOf(c, m) ==
  /\ ConstOffset(RawLsw(c), RawLsw(m), csv.lsw.index)
  /\ ConstOffset(RawBot(c), RawBot(m), csv.bot.index)
  /\ ConstOffset(RawProf(c), RawProf(m), csv.prof.index)

\* the size of the bias of model c in the profile (umol/L)
ProfBias(c) == FAbs(MeanSkipNa(Vals(o2_diff(df_o2_prof)[c], df_o2_prof.index)))

\* C18 as stated: a model that is the observations exactly gets a total
\* strictly greater than a model that is the same data offset by a bias.
C18_ExactAboveOffset ==
  pc = "done" =>
    \A a, b \in Models :
      ExactObs(a) /\ OffsetOf(b, a) => FGt(scr[a], scr[b])

\* C18 as the code has it: the correlation, extremum and variability scores
\* of the two models are equal, the exact model has 20 for the profile and
\* for the gas exchange, and its total is never below that of the offset
\* model; the totals are equal when the bias is at most 0.5 umol/L and the
\* gas exchange within 2.6 of the observed one, the exact model's total is
\* strictly greater when the offset model's rounded profile or gas exchange
\* score is below 20, and both totals are undefined together.
C18_ExactNotBelowOffset ==
  pc = "done" =>
    \A a, b \in Models :
      ExactObs(a) /\ OffsetOf(b, a) =>
        /\ scr_corr[a] = scr_corr[b]
        /\ scr_max[a] = scr_max[b]
        /\ scr_std[a] = scr_std[b]
        /\ scr_prof[a] = Num(20) /\ scr_gex[a] = Num(20)
        /\ IsNaN(scr[a]) <=> IsNaN(scr[b])
        /\ ~IsNaN(scr[a]) =>
             /\ FGe(scr[a], scr[b])
             /\ FSub(scr[a], scr[b])
                  = FAdd(FSub(Num(20), scr_prof[b]), FSub(Num(20), scr_gex[b]))
             /\ FLe(ProfBias(b), Norm(1, 2)) /\ FLe(GexDist(b), Norm(26, 10))
                  => scr[a] = scr[b]
             /\ FLt(scr_prof[b], Num(20)) \/ FLt(scr_gex[b], Num(20))
                  => FGt(scr[a], scr[b])

\* C18 happens: beside a model that is the observations exactly, a model
\* offset by a bias that is not zero has got the same total
C18_Witness ==
  /\ pc = "done"
  /\ ExactObs(infl[1])
  /\ OffsetOf(infl[2], infl[1])
  /\ FGt(ProfBias(infl[2]), Num(0))
  /\ IsFinite(scr[infl[1]])
  /\ scr[infl[1]] = scr[infl[2]]

\* the levels of ds at the depth that separates the layers
LevelsAt2200(ds) == {k \in DOMAIN ds.lev : ds.lev[k] = lev2200}

\* C19: a level at 2200 exactly belongs to the lower layer in both splits:
\* the inventory integration counts it in the lower-layer inventory and not
\* in the LSW inventory, and the profile split counts the depth 2200 in the
\* lower layer.
C19_Level2200InLowerLayer ==
  Merged =>
    \A m \in Loaded :
      LET ds == files[m]
          inv0 == Once(o2_inv0(ds))
      IN  /\ LevelsAt2200(ds) \subseteq LowerLevels(ds)
          /\ LevelsAt2200(ds) \cap UpperLevels(ds) = {}
          /\ \A t \in DOMAIN ds.time :
               /\ o2_inv_bot(ds)[t]
                    = NanSum(Vals(inv0[t], {k \in DOMAIN ds.lev : ds.lev[k] >= lev2200}))
               /\ o2_inv(ds)[t]
                    = FSum(Vals(inv0[t], {k \in DOMAIN ds.lev : ds.lev[k] < lev2200}))
          /\ {d \in df_o2_prof.index : d = lev2200} \subseteq LowerDepths(df_o2_prof)
          /\ {d \in df_o2_prof.index : d = lev2200} \cap UpperDepths(df_o2_prof) = {}

\* the time steps of ds in the calendar year y
StepsIn(ds, y) == {t \in DOMAIN ds.time : YearOf(ds.time[t]) = y}

\* the mean of the series v of ds over the calendar year y
YearMean(ds, v, y) == MeanSkipNa(Vals(v, StepsIn(ds, y)))

\* C20: at every observation label, July 1 of a year Y in which the model has
\* time steps, the aligned columns hold the model's mean over the calendar
\* year Y.
C20_BfillTakesSameYear ==
  Merged =>
    \A m \in Loaded :
      LET ds == files[m]
          lsw == Once(o2_inv(ds))
          bot == Once(o2_inv_bot(ds))
      IN  /\ \A ts \in csv.lsw.index :
               YearOf(ts) \in SampleYears(ds) =>
                 df_o2inv_lsw.val[m][ts] = YearMean(ds, lsw, YearOf(ts))
          /\ \A ts \in csv.bot.index :
               YearOf(ts) \in SampleYears(ds) =>
                 df_o2inv_bot.val[m][ts] = YearMean(ds, bot, YearOf(ts))

\* C20 happens: a merged model has two time steps with different inventories
\* in 1995 and others in 1994 and 2002; at July 1995 its column holds the mean
\* of 1995, which is neither the mean of 1994 nor that of 2002
C20_Witness ==
  /\ pc = "dropna"
  /\ LET ds == files[infl[1]]
         lsw == o2_inv(ds)
         at95 == df_o2inv_lsw.val[infl[1]][Date(1995, 7, 1)]
     IN  /\ {1994, 1995, 2002} \subseteq SampleYears(ds)
         /\ \E t, u \in StepsIn(ds, 1995) : IsFinite(lsw[t]) /\ IsFinite(lsw[u]) /\ lsw[t] # lsw[u]
         /\ at95 = YearMean(ds, lsw, 1995)
         /\ at95 # YearMean(ds, lsw, 1994)
         /\ at95 # YearMean(ds, lsw, 2002)

\* src/unnamed/part_000, cell 08520d2e: the lower layer of the local variant,
\* df - df.mean() first and dropna after it
BotLocal(df) == DropNa(Anomaly(df))

\* every column of the table has mean zero over the rows of the table
ZeroMean(df) ==
  df.index # {} => \A c \in Range(df.cols) : MeanSkipNa(Column(df, c)) = Num(0)

\* C21: in every variant of the notebook and for both layers the mean is
\* taken after the rows with a missing column have been dropped: each column
\* of the anomaly tables has mean zero over the rows that are scored.
C21_BaselineAfterDropna ==
  /\ Past("dropna") => ZeroMean(df_o2inv_lsw) /\ ZeroMean(df_o2inv_bot)
  /\ pc = "dropna" =>
       /\ ZeroMean(Anomaly(DropNa(df_o2inv_lsw)))
       /\ ZeroMean(Anomaly(DropNa(df_o2inv_bot)))
       /\ ZeroMean(BotLocal(df_o2inv_bot))

\* the rows of the table that carry the annual values of the years first..last
YearsRows(df, first, last) ==
  {ts \in df.index : first <= YearOf(ts) /\ YearOf(ts) <= last}

\* C22: for the observation and every model alike, lsw_max is the maximum of
\* the anomalies of the years 1990 to 1995 less the minimum of the anomalies
\* of the years 2002 to 2007, the first and the last year of each window
\* included.
C22_WindowsHoldBothEndYears ==
  Past("max") =>
    \A c \in DOMAIN lsw_max :
      lsw_max[c] = FSub(ColMax(Vals(df_o2inv_lsw.val[c], YearsRows(df_o2inv_lsw, 1990, 1995))),
                        ColMin(Vals(df_o2inv_lsw.val[c], YearsRows(df_o2inv_lsw, 2002, 2007))))

\* the mean over the depths of the layer of |model profile - observed profile|
MeanAbsBias(df, c, layer) ==
  MeanSkipNa(Vals([d \in df.index |-> FAbs(o2_diff(df)[c][d])], layer))

\* C23: the points of each layer are 10 less half the mean absolute bias of
\* the layer, the mean over its depths of |model - observed| (0 if below 0),
\* so that biases of opposite sign within a layer do not offset each other.
C23_MeanAbsoluteBias ==
  Past("prof") =>
    \A m \in Models \cap DOMAIN scr_prof_1 :
      /\ scr_prof_1[m]
           = ClampLow(FSub(Num(10),
                           FDiv(MeanAbsBias(df_o2_prof, m, UpperDepths(df_o2_prof)), Num(2))))
      /\ scr_prof_2[m]
           = ClampLow(FSub(Num(10),
                           FDiv(MeanAbsBias(df_o2_prof, m, LowerDepths(df_o2_prof)), Num(2))))

\* C24: when dropna leaves no row in the inventory tables the run goes on to
\* its end: the correlation and extremum scores (LSW table) and the
\* variability score (lower-layer table) are undefined for every column, and
\* the profile and gas exchange scores have the values their formulas give.
C24_EmptyOverlapUndefinedScores ==
  pc = "done" =>
    /\ df_o2inv_lsw.index = {} =>
         \A c \in DOMAIN scr_corr : IsNaN(scr_corr[c]) /\ IsNaN(scr_max[c])
    /\ df_o2inv_bot.index = {} =>
         \A c \in DOMAIN scr_std : IsNaN(scr_std[c])
    /\ df_o2inv_lsw.index = {} \/ df_o2inv_bot.index = {} =>
         /\ failed = "none"
         /\ \A m \in Models :
              /\ scr_prof[m] = ScrProf(df_o2_prof, m)
              /\ scr_gex[m] = ScrGex(df_gex, m)
              /\ InRange(scr_prof[m], 0, 20)
              /\ InRange(scr_gex[m], 0, 20)

\* C24 happens: a run whose tables were left without any row has reached its
\* end with profile and gas exchange scores and without the other three
C24_Witness ==
  /\ pc = "done"
  /\ df_o2inv_lsw.index = {} /\ df_o2inv_bot.index = {}
  /\ IsNaN(scr_corr[infl[1]]) /\ IsNaN(scr_max[infl[1]]) /\ IsNaN(scr_std[infl[1]])
  /\ scr_prof[infl[1]] = Num(0) /\ scr_prof[infl[2]] = Num(20)
  /\ scr_gex[infl[1]] = Num(20)
  /\ IsNaN(scr[infl[1]])

\* the orders in which the models of the run can be processed
Orders == {s \in [DOMAIN infl -> Range(infl)] : Range(s) = Range(infl)}

\* the four tables after the loop body has run for the first n models of order
RECURSIVE LoadedInOrder(_, _)
LoadedInOrder(order, n) ==
  IF n = 0
  THEN [lsw |-> csv.lsw, bot |-> csv.bot, prof |-> csv.prof,
        gex |-> [c \in {"Obs"} |-> GexObs]]
  ELSE LET t == LoadedInOrder(order, n - 1)
           m == order[n]
       IN  [lsw |-> LoadLsw(t.lsw, m, files[m]), bot |-> LoadBot(t.bot, m, files[m]),
            prof |-> LoadProf(t.prof, m, files[m]), gex |-> LoadGex(t.gex, m, files[m])]

\* the notebook run with the models in the given order: the tables the
\* scoring cells work on, and the scores and total of each model
RunInOrder(order) ==
  LET t == LoadedInOrder(order, Len(order))
      lsw == Once(Anomaly(Once(DropNa(Once(t.lsw)))))
      bot == Once(Anomaly(Once(DropNa(Once(t.bot)))))
      prof == Once(t.prof)
      lm == Once(LswMax(lsw))
      bs == Once(BotStd(bot))
  IN  [lsw |-> lsw, bot |-> bot, prof |-> prof, gex |-> t.gex,
       scr |-> [m \in Models |->
                  LET s == [corr |-> ScrCorr(Pearson(lsw, m)), max |-> ScrMax(lm, m),
                            std |-> ScrStd(bs, m), prof |-> ScrProf(prof, m),
                            gex |-> ScrGex(t.gex, m)]
                  IN  [corr |-> s.corr, max |-> s.max, std |-> s.std, prof |-> s.prof,
                       gex |-> s.gex,
                       total |-> FAdd(FAdd(FAdd(FAdd(s.corr, s.max), s.std), s.prof), s.gex)]]]

\* a table differs from another at most in the order of its columns
SameButColumnOrder(a, b) ==
  a.index = b.index /\ a.val = b.val /\ Range(a.cols) = Range(b.cols) /\ Len(a.cols) = Len(b.cols)

\* the result of the run at hand is that of the run in the given order
SameAsInOrder(order) ==
  LET r == RunInOrder(order)
  IN  /\ SameButColumnOrder(r.lsw, df_o2inv_lsw)
      /\ SameButColumnOrder(r.bot, df_o2inv_bot)
      /\ SameButColumnOrder(r.prof, df_o2_prof)
      /\ r.gex = df_gex
      /\ \A m \in Models :
           r.scr[m] = [corr |-> scr_corr[m], max |-> scr_max[m], std |-> scr_std[m],
                       prof |-> scr_prof[m], gex |-> scr_gex[m], total |-> scr[m]]

\* src/unnamed/part_000, lines 117-126: the years from which the time values
\* of a file may count (its units), and the year the local variant puts in
\* the units of the model processed second
Epochs == {1700, 1850}

EpochFix == 1700

\* the dataset as the local variant opens it at loop position pos (nn in the loop, from 0) when
\* the time values of its files count from the year epoch: at position 1 the
\* values are decoded from EpochFix instead, elsewhere from their own units
OpenLocal(ds, pos, epoch) ==
  IF pos = 1
  THEN [ds EXCEPT !.time = [t \in DOMAIN ds.time |-> ds.time[t] - (epoch - EpochFix) * 372],
                  !.ftime = [t \in DOMAIN ds.ftime |-> ds.ftime[t] - (epoch - EpochFix) * 372]]
  ELSE ds

\* the columns the loop body of the local variant gives model m at position pos
LocalColumns(m, pos, epoch) ==
  LET ds == OpenLocal(files[m], pos, epoch)
  IN  [lsw |-> Aligned(ds.time, o2_inv(ds), csv.lsw.index),
       bot |-> Aligned(ds.time, o2_inv_bot(ds), csv.bot.index),
       prof |-> ProfColumn(ds, csv.prof.index),
       gex |-> GexValue(ds)]

\* C25: the result does not depend on the order in which the models are
\* processed: the run at hand has the tables (up to the order of the columns),
\* the five scores and the total of the run in any other order, and in the
\* local variant a model gets the same columns at every position of the loop.
C25_OrderIndependent ==
  pc = "done" /\ failed = "none" =>
    /\ \A order \in Orders : SameAsInOrder(order)
    /\ \A m \in Models : \A epoch \in Epochs : \A pos \in 0..2 :
         LocalColumns(m, pos, epoch) = LocalColumns(m, 0, epoch)

\* src/unnamed/part_002, cell 99613f21: the earlier variant of the score,
\* (20*lsw_corr).round(), then set to 0 if below 0
ScrCorrEarlier(corr) ==
  IF corr.sgn < 0 THEN ClampLow(FNeg(Round20Sqrt(corr.sq))) ELSE Round20Sqrt(corr.sq)

\* the table with column c turned into its opposite
Negated(df, c) ==
  [df EXCEPT !.val[c] = [ts \in df.index |-> FNeg(df.val[c][ts])]]

\* (20*lsw_corr**2/0.81).round() before the line that sets negative scores to 0
ScrCorrRaw(corr) == FRound(FDiv(FMul(Num(20), corr.sq), <<81, 100>>))

\* C26: the correlation score of a model is that of the model with the
\* opposite anomalies, whose correlation is the opposite one; the line that
\* sets scores below 0 to 0 leaves every score as it was; the earlier variant
\* round(20 * corr) gives 0 to every negative correlation.
C26_CorrScoreIgnoresSign ==
  Past("corr") =>
    \A m \in Models :
      LET opp == Once(Pearson(Once(Negated(df_o2inv_lsw, m)), m))
      IN  /\ opp.sq = lsw_corr[m].sq /\ opp.sgn = -lsw_corr[m].sgn
          /\ ScrCorr(opp) = scr_corr[m]
          /\ scr_corr[m] = ScrCorrRaw(lsw_corr[m])
          /\ lsw_corr[m].sgn < 0 => ScrCorrEarlier(lsw_corr[m]) = Num(0)
          /\ lsw_corr[m].sgn > 0 => ScrCorrEarlier(opp) = Num(0)

\* C26 happens: a model that is perfectly anti-correlated with the
\* observations has got the score of a perfectly correlated one, where the
\* earlier variant gives 0 to it and 20 to its opposite
C26_Witness ==
  /\ pc = "done"
  /\ lsw_corr[infl[1]].sgn = -1 /\ lsw_corr[infl[1]].sq = Num(1)
  /\ lsw_corr[infl[2]].sgn = 1 /\ lsw_corr[infl[2]].sq = Num(1)
  /\ scr_corr[infl[1]] = scr_corr[infl[2]]
  /\ FGt(scr_corr[infl[1]], Num(0))
  /\ ScrCorrEarlier(lsw_corr[infl[1]]) = Num(0)
  /\ ScrCorrEarlier(Pearson(Negated(df_o2inv_lsw, infl[1]), infl[1])) = Num(20)

=============================================================================
